---- MODULE Spec2Model ----
(***************************************************************************)
(* Model of the AutoSub plugin (src/plugins/autosub/__init__.py): the run  *)
(* guard of init_plugin, the directory loop of _do_autosub, the worker     *)
(* pool of __process_folder_subtitle and the per-file job                  *)
(* __process_video_subtitle, with the four shared counters.                *)
(*                                                                         *)
(* Threads: the caller of init_plugin, one scheduler thread per scheduled  *)
(* _do_autosub, and up to max_workers pool threads per directory.  Every   *)
(* action is one step of one thread between two accesses to shared state.  *)
(* `self.x += 1` is a read step followed by a write step: the attribute    *)
(* update is not atomic across threads.                                    *)
(***************************************************************************)
EXTENDS Integers, Sequences, FiniteSets, TLC

\* ------------------------------------------------------------------ bounds
\* number of init_plugin calls in a behaviour
MaxCalls == 2
\* number of video files in directory "B"
MaxFiles == 2
\* number of one-byte files in directory "S"
MaxStubs == 5
\* ThreadPoolExecutor(max_workers=4)
MaxWorkers == 4

\* ------------------------------------------------------------- environment
None == "None"
NL == "\n"

\* The file system: "A", "B" and "S" are absolute directories, "X" does not
\* exist, "F" is a file, "rel" is a directory given by a relative path, ""
\* is the empty path.  "A" holds the files 1 and 2, "B" the MaxFiles files
\* from 3 on, "S" the MaxStubs files after them.
GetLibraryFiles(path) ==
    IF path = "A" THEN {1, 2}
    ELSE IF path = "B" THEN 3..(MaxFiles + 2)
    ELSE IF path = "S" THEN (MaxFiles + 3)..(MaxFiles + 2 + MaxStubs)
    ELSE {}

Files == 1..(MaxFiles + 2 + MaxStubs)

\* os.path.exists, os.path.isdir, os.path.isabs
PathExists(path) == path \in {"A", "B", "S", "F", "rel"}
PathIsDir(path) == path \in {"A", "B", "S", "rel"}
PathIsAbs(path) == path \in {"A", "B", "S", "F"}

\* os.path.getsize: file 1 and the files of "S" are stubs of one byte, the
\* others have three.
GetSize(f) == IF f = 1 \/ f > MaxFiles + 2 THEN 1 ELSE 3

\* str.isdigit and int() on the file_size strings the model draws
IsDigit(s) == s \in {"2", "4"}
IntOf(s) == IF s = "2" THEN 2 ELSE 4

Truthy(s) == s # None /\ s # ""

\* str.split('\n') on a text given as a sequence of tokens, each a path or NL
RECURSIVE Split(_)
Split(t) ==
    IF \A k \in 1..Len(t) : t[k] # NL
    THEN << IF t = <<>> THEN "" ELSE t[1] >>
    ELSE LET k == CHOOSE j \in 1..Len(t) :
                      t[j] = NL /\ \A m \in 1..(j - 1) : t[m] # NL
         IN  << IF k = 1 THEN "" ELSE t[1] >> \o Split(SubSeq(t, k + 1, Len(t)))

SetOf(s) == {s[k] : k \in 1..Len(s)}

\* list(set(xs)): the elements without duplicates, in an order set() decides
ListOfSet(xs) ==
    LET S == SetOf(xs)
        n == Cardinality(S)
    IN  {l \in [1..n -> S] : \A a, b \in 1..n : a # b => l[a] # l[b]}

\* ------------------------------------------------------------------- state
VARIABLES
    running,        \* self._running
    process_count, success_count, skip_count, fail_count,
    cfg,            \* self.file_size, translate_only, translate_zh, send_notify
    runs,           \* the executions of _do_autosub, by the call that scheduled them
    jobs,           \* the executions of __process_video_subtitle, by run and file
    calls,          \* init_plugin calls made so far
    rejected,       \* the last init_plugin call found a run active (line 154)
    ops             \* increments performed on each counter since it was last zeroed

vars == <<running, process_count, success_count, skip_count, fail_count,
          cfg, runs, jobs, calls, rejected, ops>>

counters == <<process_count, success_count, skip_count, fail_count>>

RunIds == 1..MaxCalls

CounterNames == {"process_count", "success_count", "skip_count", "fail_count"}

Zero == [c \in CounterNames |-> 0]

Counter(c) ==
    CASE c = "process_count" -> process_count
      [] c = "success_count" -> success_count
      [] c = "skip_count" -> skip_count
      [] c = "fail_count" -> fail_count

SetCounter(c, v) ==
    /\ process_count' = IF c = "process_count" THEN v ELSE process_count
    /\ success_count' = IF c = "success_count" THEN v ELSE success_count
    /\ skip_count' = IF c = "skip_count" THEN v ELSE skip_count
    /\ fail_count' = IF c = "fail_count" THEN v ELSE fail_count

ResetCounters ==
    /\ process_count' = 0
    /\ success_count' = 0
    /\ skip_count' = 0
    /\ fail_count' = 0
    /\ ops' = Zero

\* init_plugin lines 82-95
Defaults ==
    [file_size |-> None, translate_only |-> FALSE, translate_zh |-> FALSE,
     send_notify |-> FALSE]

NoRun == [pc |-> "none", text |-> <<>>, path_list |-> <<>>, i |-> 1, summary |-> <<>>]

\* a file no job was submitted for
Idle == [pc |-> "idle"]

\* a job before its first step: nothing read, nothing counted
NoJob ==
    [pc |-> "idle", ctr |-> "", tmp |-> 0, nxt |-> "",
     limit |-> 0, existed |-> FALSE, gen |-> "no", passed |-> FALSE, reread |-> FALSE,
     tr |-> "no", nfail |-> {}, did |-> Zero]

\* The plugin once loaded: __init__ (lines 56-79) followed by the first
\* init_plugin, which sets the defaults of lines 82-95.
Init ==
    /\ running = FALSE
    /\ process_count = 0
    /\ success_count = 0
    /\ skip_count = 0
    /\ fail_count = 0
    /\ cfg = Defaults
    /\ runs = [r \in RunIds |-> NoRun]
    /\ jobs = [r \in RunIds |-> [f \in Files |-> Idle]]
    /\ calls = 0
    /\ rejected = FALSE
    /\ ops = Zero

\* --------------------------------------------------------------- init_plugin
\* The texts of config['path_list'] the model draws.
PathTexts == { <<"A">>, <<"X", NL, "A">>, <<>> }

FileSizes == {None, "abc", "2", "4"}

\* The configurations handed to init_plugin.  Fields a return makes
\* irrelevant are fixed, so that no two configurations take the same path
\* with the same effect.
Configs ==
    {[empty |-> TRUE, translate_zh |-> FALSE, chatgpt |-> "ok",
      file_size |-> None, translate_only |-> FALSE, send_notify |-> FALSE,
      run_now |-> FALSE, asr_ok |-> TRUE, path_list |-> <<>>]}
    \cup
    {[empty |-> FALSE, translate_zh |-> TRUE, chatgpt |-> g,
      file_size |-> None, translate_only |-> FALSE, send_notify |-> FALSE,
      run_now |-> FALSE, asr_ok |-> TRUE, path_list |-> <<>>] :
        g \in {"missing", "no_key"}}
    \cup
    {[empty |-> FALSE, translate_zh |-> z, chatgpt |-> "ok",
      file_size |-> s, translate_only |-> o, send_notify |-> n,
      run_now |-> FALSE, asr_ok |-> TRUE, path_list |-> <<>>] :
        z \in BOOLEAN, s \in FileSizes, o \in BOOLEAN, n \in BOOLEAN}
    \cup
    {[empty |-> FALSE, translate_zh |-> z, chatgpt |-> "ok",
      file_size |-> s, translate_only |-> o, send_notify |-> n,
      run_now |-> TRUE, asr_ok |-> a, path_list |-> t] :
        z \in BOOLEAN, s \in FileSizes, o \in BOOLEAN, n \in BOOLEAN,
        a \in BOOLEAN, t \in PathTexts}

\* A run request with translation on and notification off
RunConfig(t) ==
    [empty |-> FALSE, translate_zh |-> TRUE, chatgpt |-> "ok",
     file_size |-> "2", translate_only |-> FALSE, send_notify |-> FALSE,
     run_now |-> TRUE, asr_ok |-> TRUE, path_list |-> t]

\* lines 159-163: the job of a run over pl, made from the text t
Scheduled(t, pl) ==
    [pc |-> "scheduled", text |-> t, path_list |-> pl, i |-> 1, summary |-> <<>>]

\* lines 154-156: the test of the active flag before a run is scheduled
RunIsActive == running

\* lines 88-91
InitCounters == ResetCounters

Return == rejected' = FALSE /\ UNCHANGED runs

\* One call of init_plugin(config), lines 81-168.
init_plugin(config) ==
    /\ calls < MaxCalls
    /\ calls' = calls + 1
    /\ InitCounters
    /\ UNCHANGED <<running, jobs>>
    /\ IF config.empty
       THEN cfg' = Defaults /\ Return
       ELSE IF config.translate_zh /\ config.chatgpt # "ok"
       THEN cfg' = [Defaults EXCEPT !.translate_zh = TRUE] /\ Return
       ELSE /\ cfg' = [file_size |-> config.file_size,
                       translate_only |-> config.translate_only,
                       translate_zh |-> config.translate_zh,
                       send_notify |-> config.send_notify]
            /\ IF ~config.run_now
               THEN Return
               ELSE IF ~Truthy(config.file_size)
               THEN Return
               ELSE IF ~IsDigit(config.file_size)
               THEN Return
               ELSE IF ~config.translate_only /\ ~config.asr_ok
               THEN Return
               ELSE IF RunIsActive
               THEN rejected' = TRUE /\ UNCHANGED runs
               ELSE /\ rejected' = FALSE
                    /\ \E pl \in ListOfSet(Split(config.path_list)) :
                          runs' = [runs EXCEPT ![calls + 1] = Scheduled(config.path_list, pl)]

RunRequested == \E r \in RunIds : runs[r].pc # "none"

\* Any call of init_plugin, with at most one run request accepted: the run
\* and the configuration reloads around it.
InitPlugin ==
    \E config \in Configs :
        /\ config.run_now => ~RunRequested
        /\ init_plugin(config)

\* One run request over a directory of several videos.
PoolRequest ==
    \E t \in { <<"B">>, <<"A", NL, "B">> } :
        /\ ~RunRequested
        /\ init_plugin(RunConfig(t))

\* Repeated run requests.
RunRequest ==
    \E t \in { <<"A">>, <<"X", NL, "A">> } : init_plugin(RunConfig(t))

\* The texts of a run over several directories, valid or not
DirTexts ==
    { <<"A", NL, "S">>, <<"X", NL, "A">>, <<"F", NL, "A">>, <<"rel", NL, "A">>,
      <<"A", NL, "A">>, <<"S">>, <<>> }

\* One run request over several directories, with notification on or off.
DirRequest ==
    \E t \in DirTexts, n \in BOOLEAN :
        /\ ~RunRequested
        /\ init_plugin([RunConfig(t) EXCEPT !.send_notify = n])

\* --------------------------------------------------------------- _do_autosub
\* lines 172-174: the scheduler fires the job; the run marks itself active
\* and zeroes the counters.
RunStart(r) ==
    /\ runs[r].pc = "scheduled"
    /\ running' = TRUE
    /\ ResetCounters
    /\ runs' = [runs EXCEPT ![r].pc = "loop"]
    /\ UNCHANGED <<cfg, jobs, calls, rejected>>

\* lines 180, 185, 190: `continue`
SkipDirectory_Abort(r) ==
    /\ runs' = [runs EXCEPT ![r].pc = "finally"]
    /\ UNCHANGED jobs

SkipDirectory(r) ==
    /\ runs' = [runs EXCEPT ![r].i = @ + 1]
    /\ UNCHANGED jobs

\* lines 194-195: the exception is logged and control passes to `finally`
Raised_Escapes(r) ==
    /\ runs' = [runs EXCEPT ![r].pc = "done"]
    /\ UNCHANGED jobs

Raised(r) ==
    /\ runs' = [runs EXCEPT ![r].pc = "finally"]
    /\ UNCHANGED jobs

Submitted(fs, old) ==
    [f \in Files |-> IF f \in fs THEN [NoJob EXCEPT !.pc = "queued"] ELSE old[f]]

\* lines 175-193 and 201-214: one turn of the directory loop, up to the
\* submission of the directory's files to a new pool.
RunLoop(r) ==
    /\ runs[r].pc = "loop"
    /\ UNCHANGED <<running, counters, ops, cfg, calls, rejected>>
    /\ IF runs[r].i > Len(runs[r].path_list)
       THEN /\ runs' = [runs EXCEPT ![r].pc = "finally"]
            /\ UNCHANGED jobs
       ELSE LET path == runs[r].path_list[runs[r].i]
            IN  IF ~PathExists(path) \/ ~PathIsDir(path) \/ ~PathIsAbs(path)
                THEN SkipDirectory(r)
                ELSE \/ \* __get_library_files raises
                        Raised(r)
                     \/ /\ GetLibraryFiles(path) = {}
                        /\ runs' = [runs EXCEPT ![r].i = @ + 1]
                        /\ UNCHANGED jobs
                     \/ /\ GetLibraryFiles(path) # {}
                        /\ runs' = [runs EXCEPT ![r].pc = "pool"]
                        /\ jobs' = [jobs EXCEPT ![r] = Submitted(GetLibraryFiles(path), @)]

Finished(j) == j.pc \in {"done", "raised"}

Executing(j) == j.pc \notin {"idle", "queued", "done", "raised"}

CurrentFiles(r) ==
    IF runs[r].pc = "pool" THEN GetLibraryFiles(runs[r].path_list[runs[r].i]) ELSE {}

\* lines 213-219: as_completed has yielded every future of the directory
PoolJoined_FirstCompleted(r) == \E f \in CurrentFiles(r) : Finished(jobs[r][f])

PoolJoined(r) == \A f \in CurrentFiles(r) : Finished(jobs[r][f])

\* lines 213-219: the with block ends once every future has completed; an
\* exception of a job is logged by the as_completed loop.
RunJoin(r) ==
    /\ runs[r].pc = "pool"
    /\ PoolJoined(r)
    /\ runs' = [runs EXCEPT ![r].pc = "loop", ![r].i = @ + 1]
    /\ UNCHANGED <<running, counters, ops, cfg, jobs, calls, rejected>>

\* lines 196-199: the summary is logged and the run marks itself inactive.
RunFinally(r) ==
    /\ runs[r].pc = "finally"
    /\ runs' = [runs EXCEPT ![r].pc = "done",
                            ![r].summary = <<[success_count |-> success_count,
                                              skip_count |-> skip_count,
                                              fail_count |-> fail_count,
                                              process_count |-> process_count]>>]
    /\ running' = FALSE
    /\ UNCHANGED <<counters, ops, cfg, jobs, calls, rejected>>

\* ------------------------------------------------ __process_video_subtitle
ActiveWorkers(r) == Cardinality({f \in Files : Executing(jobs[r][f])})

JobFrame == UNCHANGED <<running, counters, ops, cfg, runs, calls, rejected>>

SetJob(r, f, j) == jobs' = [jobs EXCEPT ![r][f] = j]

\* `self.<c> += 1` followed by the code at n: the read comes first
Inc(j, c, n) == [j EXCEPT !.pc = "rd", !.ctr = c, !.nxt = n]

Goto(j, n) == [j EXCEPT !.pc = n]

\* post_message raised; nfail keeps the calls that did
NotifyFailed(j, n) == [j EXCEPT !.pc = n, !.nfail = @ \cup {j.pc}]

\* line 213: the pool has a worker to spare
WorkerFree_Unbounded(r) == TRUE

WorkerFree(r) == ActiveWorkers(r) < MaxWorkers

\* line 214: a free worker of the directory's pool takes the job
JobStart(r, f) ==
    /\ runs[r].pc = "pool"
    /\ jobs[r][f].pc = "queued"
    /\ WorkerFree(r)
    /\ SetJob(r, f, Goto(jobs[r][f], "size"))
    /\ JobFrame

\* the comparison of line 231 turned around
BelowThreshold_Inverted(f) == GetSize(f) > IntOf(cfg.file_size)

\* line 231
BelowThreshold(f) == GetSize(f) < IntOf(cfg.file_size)

\* the small file counted as skipped instead of returning silently
SmallFile_CountedSkipped(j) == Inc(j, "skip_count", "done")

\* line 232: the job of a file below the threshold returns
SmallFile(j) == Goto(j, "done")

\* lines 227-234: int() raises on a file_size that is no number, outside
\* the try block
JobSize(r, f) ==
    /\ jobs[r][f].pc = "size"
    /\ JobFrame
    /\ IF ~IsDigit(cfg.file_size)
       THEN SetJob(r, f, Goto(jobs[r][f], "raised"))
       ELSE LET j == [jobs[r][f] EXCEPT !.limit = IntOf(cfg.file_size)]
            IN  IF BelowThreshold(f)
                THEN SetJob(r, f, SmallFile(j))
                ELSE SetJob(r, f, Inc(j, "process_count", "exists"))

\* the load of `self.<ctr>` in `self.<ctr> += 1`
JobRead(r, f) ==
    /\ jobs[r][f].pc = "rd"
    /\ SetJob(r, f, [jobs[r][f] EXCEPT !.pc = "wr", !.tmp = Counter(jobs[r][f].ctr)])
    /\ JobFrame

\* the store of `self.<ctr>` in `self.<ctr> += 1`
JobWrite(r, f) ==
    LET j == jobs[r][f]
    IN  /\ j.pc = "wr"
        /\ SetCounter(j.ctr, j.tmp + 1)
        /\ ops' = [ops EXCEPT ![j.ctr] = @ + 1]
        /\ SetJob(r, f, [j EXCEPT !.pc = j.nxt, !.did[j.ctr] = @ + 1])
        /\ UNCHANGED <<running, cfg, runs, calls, rejected>>

\* the return of line 245 missing, and the count with it
SubtitleExists_NoReturn(j) == Goto([j EXCEPT !.existed = TRUE], "notify_start")

\* lines 244-245
SubtitleExists(j) == Inc([j EXCEPT !.existed = TRUE], "skip_count", "done")

\* line 242: __target_subtitle_exists returns or raises
JobExists(r, f) ==
    /\ jobs[r][f].pc = "exists"
    /\ JobFrame
    /\ \/ SetJob(r, f, SubtitleExists(jobs[r][f]))
       \/ SetJob(r, f, Goto(jobs[r][f], "notify_start"))
       \/ SetJob(r, f, Goto(jobs[r][f], "except"))

\* lines 247-249
JobNotifyStart(r, f) ==
    /\ jobs[r][f].pc = "notify_start"
    /\ JobFrame
    /\ IF cfg.send_notify
       THEN \/ SetJob(r, f, Goto(jobs[r][f], "generate"))
            \/ SetJob(r, f, NotifyFailed(jobs[r][f], "except"))
       ELSE SetJob(r, f, Goto(jobs[r][f], "generate"))

\* line 250: __generate_subtitle(video_file, file_path, self.translate_only)
\* returns a subtitle, returns none, or raises
JobGenerate(r, f) ==
    /\ jobs[r][f].pc = "generate"
    /\ JobFrame
    /\ \E res \in {"ok", "none", "raise"} :
          SetJob(r, f, [jobs[r][f] EXCEPT
                           !.gen = res,
                           !.passed = cfg.translate_only,
                           !.pc = CASE res = "ok" -> "translate_zh"
                                    [] res = "none" -> "no_ret"
                                    [] res = "raise" -> "except"])

\* lines 253-258: the counter of a job without a subtitle
NoRetCounter(translate_only) == IF translate_only THEN "skip_count" ELSE "fail_count"

\* lines 251-258
JobNoRet(r, f) ==
    /\ jobs[r][f].pc = "no_ret"
    /\ JobFrame
    /\ SetJob(r, f, Inc([jobs[r][f] EXCEPT !.reread = cfg.translate_only],
                         NoRetCounter(cfg.translate_only), "notify_ret"))

\* lines 260-262
JobNotifyRet(r, f) ==
    /\ jobs[r][f].pc = "notify_ret"
    /\ JobFrame
    /\ IF cfg.send_notify
       THEN \/ SetJob(r, f, Goto(jobs[r][f], "done"))
            \/ SetJob(r, f, NotifyFailed(jobs[r][f], "except"))
       ELSE SetJob(r, f, Goto(jobs[r][f], "done"))

\* lines 264-269
JobTranslateZh(r, f) ==
    /\ jobs[r][f].pc = "translate_zh"
    /\ JobFrame
    /\ IF cfg.translate_zh
       THEN IF cfg.send_notify
            THEN \/ SetJob(r, f, Goto(jobs[r][f], "translate"))
                 \/ SetJob(r, f, NotifyFailed(jobs[r][f], "except"))
            ELSE SetJob(r, f, Goto(jobs[r][f], "translate"))
       ELSE SetJob(r, f, Goto(jobs[r][f], "complete"))

\* line 270 raised: the handler of line 282 takes over
TranslateRaised(j) == [j EXCEPT !.tr = "raise", !.pc = "except"]

\* line 270: __translate_zh_subtitle returns or raises
JobTranslate(r, f) ==
    /\ jobs[r][f].pc = "translate"
    /\ JobFrame
    /\ \/ SetJob(r, f, [jobs[r][f] EXCEPT !.tr = "ok", !.pc = "complete"])
       \/ SetJob(r, f, TranslateRaised(jobs[r][f]))

\* lines 273-281
JobComplete(r, f) ==
    /\ jobs[r][f].pc = "complete"
    /\ JobFrame
    /\ IF cfg.send_notify
       THEN \/ SetJob(r, f, Inc(jobs[r][f], "success_count", "done"))
            \/ SetJob(r, f, NotifyFailed(jobs[r][f], "except"))
       ELSE SetJob(r, f, Inc(jobs[r][f], "success_count", "done"))

\* lines 282-290: post_message of the handler may raise too, and then the
\* exception leaves the job
JobExcept(r, f) ==
    /\ jobs[r][f].pc = "except"
    /\ JobFrame
    /\ IF cfg.send_notify
       THEN \/ SetJob(r, f, Inc(jobs[r][f], "fail_count", "done"))
            \/ SetJob(r, f, NotifyFailed(jobs[r][f], "raised"))
       ELSE SetJob(r, f, Inc(jobs[r][f], "fail_count", "done"))

\* ------------------------------------------------------------ specification
RunStep ==
    \E r \in RunIds : RunStart(r) \/ RunLoop(r) \/ RunJoin(r) \/ RunFinally(r)

JobStep ==
    \E r \in RunIds, f \in Files :
        \/ JobStart(r, f)
        \/ JobSize(r, f)
        \/ JobRead(r, f)
        \/ JobWrite(r, f)
        \/ JobExists(r, f)
        \/ JobNotifyStart(r, f)
        \/ JobGenerate(r, f)
        \/ JobNoRet(r, f)
        \/ JobNotifyRet(r, f)
        \/ JobTranslateZh(r, f)
        \/ JobTranslate(r, f)
        \/ JobComplete(r, f)
        \/ JobExcept(r, f)

\* a run and the configuration reloads around it
Next == InitPlugin \/ RunStep \/ JobStep

Spec == Init /\ [][Next]_vars

\* one run over a directory whose files are processed concurrently
NextPool == PoolRequest \/ RunStep \/ JobStep

SpecPool == Init /\ [][NextPool]_vars

\* repeated run requests
NextRequests == RunRequest \/ RunStep \/ JobStep

SpecRequests == Init /\ [][NextRequests]_vars

\* one run over several directories
NextDirs == DirRequest \/ RunStep \/ JobStep

SpecDirs == Init /\ [][NextDirs]_vars

\* The scheduler fires every job it holds, the coordinator thread and the
\* pool's workers keep running, and every external call returns or raises.
FairDirs == SpecDirs /\ WF_vars(RunStep) /\ WF_vars(JobStep)

\* =================================================================== claims
JobIds == RunIds \X Files

Job(id) ==
    IF jobs[id[1]][id[2]] = Idle THEN NoJob ELSE jobs[id[1]][id[2]]

\* the job compared the file's size with a threshold above it (line 231)
BelowLimit(id) == Job(id).limit > 0 /\ GetSize(id[2]) < Job(id).limit

\* the job compared the file's size with a threshold not above it
AtLimit(id) == Job(id).limit > 0 /\ GetSize(id[2]) >= Job(id).limit

SummaryLogged(r) == runs[r].summary # <<>>

Summary(r) == runs[r].summary[1]

InProgress(r) == runs[r].pc \in {"loop", "pool", "finally"}

\* C1: when a run logs its summary, the processed counter equals the sum of
\* the succeeded, skipped and failed counters.
C1_SummaryBalanced ==
    \A r \in RunIds :
        SummaryLogged(r) =>
            Summary(r).process_count =
                Summary(r).success_count + Summary(r).skip_count + Summary(r).fail_count

\* C2: at no time are two executions of _do_autosub in progress.
C2_AtMostOneRun ==
    Cardinality({r \in RunIds : InProgress(r)}) <= 1

\* C3: a run request rejected because a run is active schedules no run and
\* leaves the four counters as they were.
C3_RejectedRequestChangesNothing ==
    [][(calls' = calls + 1 /\ rejected') =>
           (UNCHANGED counters /\ UNCHANGED runs)]_vars

\* C4: no increment is lost: each counter equals the number of increments
\* the jobs performed on it since it was last set to zero.
C4_NoLostUpdate ==
    \A c \in CounterNames : Counter(c) = ops[c]

C6_SmallFileNeverTranscribed ==
    \A id \in JobIds : BelowLimit(id) => Job(id).gen = "no"

\* both files of directory "A" under a threshold of four bytes
C6_Witness ==
    \E r \in RunIds :
        /\ BelowLimit(<<r, 2>>)
        /\ Job(<<r, 2>>).pc = "done"
        /\ Job(<<r, 1>>).pc = "done"

\* C7: a job at or above the threshold whose subtitle check returned true
\* increments the skipped counter once when it ends, never the succeeded or
\* failed counter, and never calls __generate_subtitle.
C7_ExistingSubtitleSkipped ==
    \A id \in JobIds :
        Job(id).existed =>
            /\ AtLimit(id)
            /\ Job(id).gen = "no"
            /\ Job(id).did["success_count"] = 0
            /\ Job(id).did["fail_count"] = 0
            /\ Job(id).pc \in {"rd", "wr", "done"}
            /\ Job(id).did["skip_count"] = IF Job(id).pc = "done" THEN 1 ELSE 0

C7_Witness ==
    \E id \in JobIds :
        /\ Job(id).existed
        /\ Job(id).pc = "done"
        /\ skip_count > 0

\* C8: a job whose transcription succeeded and whose translation raised
\* increments the succeeded counter and not the failed counter.
C8_TranslationFailureIsSuccess ==
    \A id \in JobIds :
        (Job(id).gen = "ok" /\ Job(id).tr = "raise" /\ Finished(Job(id))) =>
            /\ Job(id).did["success_count"] = 1
            /\ Job(id).did["fail_count"] = 0

\* C9: with translate-only off (at line 250 and at line 253), a job whose
\* transcription failed or raised increments the failed counter exactly once.
C9_TranscriptionFailureCountedOnce ==
    \A id \in JobIds :
        (/\ Job(id).gen \in {"none", "raise"}
         /\ ~Job(id).passed
         /\ ~Job(id).reread
         /\ Finished(Job(id))) =>
            Job(id).did["fail_count"] = 1

\* C10: in translate-only mode (at line 250 and at line 253), a job for which
\* no subtitle was found increments the skipped counter once, never the
\* failed counter, and never calls the translator.
C10_NothingToTranslateSkipped ==
    \A id \in JobIds :
        (/\ Job(id).gen = "none"
         /\ Job(id).passed
         /\ Job(id).reread
         /\ Finished(Job(id))) =>
            /\ Job(id).did["skip_count"] = 1
            /\ Job(id).did["fail_count"] = 0
            /\ Job(id).tr = "no"

\* the files of the k-th directory of run r
FilesAt(r, k) == GetLibraryFiles(runs[r].path_list[k])

Started(j) == j.pc \notin {"idle", "queued"}

\* C11: within one run no job of a later directory starts before every job
\* of each earlier directory has terminated, and jobs of two directories of
\* the run never execute at the same time.
C11_DirectoriesOneAfterAnother ==
    \A r \in RunIds : \A k \in 1..Len(runs[r].path_list) : \A l \in 1..(k - 1) :
        \A g \in FilesAt(r, k), f \in FilesAt(r, l) :
            /\ Started(jobs[r][g]) => Finished(jobs[r][f])
            /\ ~(Executing(jobs[r][g]) /\ Executing(jobs[r][f]))

\* a job of a run's second directory executes, the first directory having
\* had jobs of its own
C11_Witness ==
    \E r \in RunIds :
        /\ runs[r].pc = "pool" /\ runs[r].i = 2
        /\ FilesAt(r, 1) # {}
        /\ \E g \in FilesAt(r, 2) : Executing(jobs[r][g])

\* C12: every scheduled run eventually logs its summary and leaves the
\* active flag false, whether its loop ends normally or an exception escapes
\* the enumeration or a job; once _do_autosub has returned the flag is false.
C12_RunEndsInSummary ==
    \A r \in RunIds :
        /\ (runs[r].pc = "scheduled")
               ~> (runs[r].pc = "done" /\ SummaryLogged(r) /\ ~running)
        /\ [](runs[r].pc = "done" => ~running)

\* a run has returned after a job of its first directory let an exception
\* out and the enumeration of its second directory raised
C12_Witness ==
    \E r \in RunIds :
        /\ runs[r].pc = "done" /\ SummaryLogged(r) /\ ~running
        /\ runs[r].i = 2 /\ Len(runs[r].path_list) = 2
        /\ \E f \in FilesAt(r, 1) : jobs[r][f].pc = "raised"

\* the notifier's calls at job start (line 248), before translation (line
\* 268) and at completion (line 280)
ProgressNotices == {"notify_start", "translate_zh", "complete"}

\* C13: a failure of the notifier at job start, before translation or at
\* completion changes no outcome: the job's exception never reaches the pool,
\* the job still transcribes, a job whose transcription and translation went
\* through counts as succeeded and not as failed, and a job counted as
\* skipped is not counted as failed.
C13_NotifierFailureHarmless ==
    \A id \in JobIds :
        (/\ Job(id).nfail # {}
         /\ Job(id).nfail \subseteq ProgressNotices
         /\ Finished(Job(id))) =>
            /\ Job(id).pc = "done"
            /\ Job(id).gen # "no"
            /\ (Job(id).gen = "ok" /\ Job(id).tr # "raise") =>
                   /\ Job(id).did["success_count"] = 1
                   /\ Job(id).did["fail_count"] = 0
            /\ Job(id).did["skip_count"] = 1 => Job(id).did["fail_count"] = 0

\* the directories in the order of the configured text
Configured(r) == Split(runs[r].text)

Distinct(seq) == \A k, l \in 1..Len(seq) : seq[k] = seq[l] => k = l

\* the path passes the tests of lines 178, 183 and 188
Valid(path) == PathExists(path) /\ PathIsDir(path) /\ PathIsAbs(path)

\* the directories the loop of lines 175-193 has taken up so far, in order
Taken(r) ==
    IF runs[r].pc \in {"none", "scheduled"} THEN <<>>
    ELSE SubSeq(runs[r].path_list, 1,
                IF runs[r].pc = "pool" THEN runs[r].i ELSE runs[r].i - 1)

\* C14: the directories of a run are taken up in the configured order: for a
\* configured list of distinct directories, all of them valid, what the loop
\* has taken up is a prefix of the configured list.
C14_ConfiguredOrder ==
    \A r \in RunIds :
        (/\ Distinct(Configured(r))
         /\ \A k \in 1..Len(Configured(r)) : Valid(Configured(r)[k])) =>
            /\ Len(Taken(r)) <= Len(Configured(r))
            /\ Taken(r) = SubSeq(Configured(r), 1, Len(Taken(r)))

\* the number of increments of the three outcome counters a job performed
Classifications(id) ==
    Job(id).did["success_count"] + Job(id).did["skip_count"] + Job(id).did["fail_count"]

\* C15: a job that has passed the size test and terminated has incremented
\* exactly one of success_count, skip_count and fail_count, exactly once.
C15_ExactlyOneClassification ==
    \A id \in JobIds :
        (AtLimit(id) /\ Finished(Job(id))) => Classifications(id) = 1

\* C16: at no time does a run have more than MaxWorkers jobs in progress,
\* however many files its directory holds.
C16_AtMostMaxWorkers == \A r \in RunIds : ActiveWorkers(r) <= MaxWorkers

\* the pool of a directory of more than MaxWorkers files is full, with a job
\* waiting for a worker
C16_Witness ==
    \E r \in RunIds :
        /\ ActiveWorkers(r) = MaxWorkers
        /\ \E f \in CurrentFiles(r) : jobs[r][f].pc = "queued"

\* the loop of run r stands at a directory that fails a test of lines 178-190
AtInvalid(r) ==
    /\ runs[r].pc = "loop"
    /\ runs[r].i <= Len(runs[r].path_list)
    /\ ~Valid(runs[r].path_list[runs[r].i])

\* C17: the step of a run at a directory that does not exist, is not a
\* directory or is not absolute moves the loop on to the next directory and
\* changes nothing else: no job, no counter, not the active flag.
C17_InvalidDirectorySkipped ==
    [][\A r \in RunIds :
          (AtInvalid(r) /\ runs'[r] # runs[r]) =>
              /\ runs'[r] = [runs[r] EXCEPT !.i = @ + 1]
              /\ UNCHANGED <<jobs, counters, running>>]_vars

\* a run has returned whose first directory was invalid and whose second
\* directory had its files processed
C17_Witness ==
    \E r \in RunIds :
        /\ runs[r].pc = "done"
        /\ Len(runs[r].path_list) = 2 /\ runs[r].i = 3
        /\ ~Valid(runs[r].path_list[1])
        /\ \E f \in FilesAt(r, 2) : jobs[r][f].pc = "done" /\ Classifications(<<r, f>>) = 1

\* C18: a run is scheduled only by a request with a numeric size threshold
\* and a directory list that is not empty.
C18_InvalidRequestRejected ==
    [][\A r \in RunIds :
          (runs[r].pc = "none" /\ runs'[r].pc = "scheduled") =>
              /\ IsDigit(cfg'.file_size)
              /\ runs'[r].text # <<>>]_vars

\* C19: while a run is between its reset and its summary, no step makes any
\* of the four counters smaller.
C19_CountersNeverDecrease ==
    [][(\E r \in RunIds : InProgress(r)) =>
          /\ process_count' >= process_count
          /\ success_count' >= success_count
          /\ skip_count' >= skip_count
          /\ fail_count' >= fail_count]_vars

\* C20: whenever a job is executing, the flag _running is true.
C20_RunningWhileJobsExecute ==
    \A id \in JobIds : Executing(Job(id)) => running

====
